---------------------------- MODULE Spec2Model ----------------------------
(***************************************************************************)
(* The Zed extension of ferrule (tooling/zed/src/lib.rs): one entry point, *)
(* language_server_command, called by the editor host once per language    *)
(* server start attempt.  The host side is modelled as a few callers that  *)
(* issue a request, have the extension run it and consume the result.      *)
(* Strings are TLA+ strings: = is character-for-character equality, \o is  *)
(* concatenation, Len and SubSeq are as for sequences.                     *)
(***************************************************************************)
EXTENDS Integers, Sequences, FiniteSets, TLC

VARIABLES
    ext,        \* the FerruleExtension value the host holds (the &mut self)
    pc,         \* per caller: "idle", "called" (request issued), "returned"
    req,        \* per caller: the request in flight, or NoReq
    res,        \* per caller: the Result<Command> handed back, or NoRes
    delivered   \* the last request/result pair the host consumed, or NoRes

vars == <<ext, pc, req, res, delivered>>

(***************************************************************************)
(* Bounds and input sets.                                                  *)
(***************************************************************************)
\* longest padding put before or after the supported identifier
MaxPad == 1

PadChars == {" ", "x"}

Callers == {"host1", "host2"}

\* the project contexts (worktree roots) the host may pass
Worktrees == {"/work/a", "/work/b"}

NoReq == [none |-> "req"]
NoRes == [none |-> "res"]

RECURSIVE Pads(_)
Pads(n) ==
    IF n = 0 THEN {""}
    ELSE Pads(n - 1) \cup {p \o c : p \in Pads(n - 1), c \in PadChars}

FerruleLsp == "ferrule-lsp"

\* every proper or improper prefix of the supported identifier, "" included
Prefixes == {SubSeq(FerruleLsp, 1, n) : n \in 0..Len(FerruleLsp)}

\* whitespace- or character-padded forms, before and after
Padded == {FerruleLsp \o p : p \in Pads(MaxPad)} \cup {p \o FerruleLsp : p \in Pads(MaxPad)}

OtherServers == {"clangd", "rust-analyzer", "Ferrule-lsp", "FERRULE-LSP"}

Identifiers == Prefixes \cup Padded \cup OtherServers

(***************************************************************************)
(* Values of the host API.                                                 *)
(***************************************************************************)
\* zed::LanguageServerId is a newtype around the identifier string
LanguageServerId(s) == <<s>>

\* AsRef<str> for LanguageServerId: the wrapped string
as_ref(language_server_id) == language_server_id[1]

Command(command, args, env) == [command |-> command, args |-> args, env |-> env]

Ok(v) == [kind |-> "Ok", command |-> v]

Err(e) == [kind |-> "Err", msg |-> e]

(***************************************************************************)
(* The extension.                                                          *)
(***************************************************************************)
\* FerruleExtension is a unit struct: new() builds its only value
new == [struct |-> "FerruleExtension"]

IsSupportedPrefix(language_server_id) ==
    /\ Len(as_ref(language_server_id)) > 0
    /\ as_ref(language_server_id) \in Prefixes

\* the condition of line 15
IsSupported(language_server_id) == as_ref(language_server_id) = "ferrule-lsp"

LaunchWithStdio == Command("ferrule-lsp", <<"--stdio">>, <<>>)

\* the Command of lines 16-20: vec![] and Default::default() are empty
Launch == Command("ferrule-lsp", <<>>, <<>>)

UnknownMessageNoId(language_server_id) == "unknown language server"

UnknownMessageTruncated(language_server_id) ==
    "unknown language server: "
        \o SubSeq(as_ref(language_server_id), 1,
                  IF Len(as_ref(language_server_id)) < Len(FerruleLsp)
                  THEN Len(as_ref(language_server_id)) ELSE Len(FerruleLsp))

\* the format! of line 22
UnknownMessage(language_server_id) ==
    "unknown language server: " \o as_ref(language_server_id)

\* a variant that starts the server once and refuses afterwards
language_server_command_once(self, language_server_id, worktree) ==
    IF IsSupported(language_server_id)
    THEN IF self = new
         THEN [self |-> [struct |-> "FerruleExtension", started |-> TRUE],
               ret |-> Ok(Launch)]
         ELSE [self |-> self, ret |-> Err("language server already started")]
    ELSE [self |-> self, ret |-> Err(UnknownMessage(language_server_id))]

\* a variant that remembers the last failure and reports it from then on
language_server_command_sticky(self, language_server_id, worktree) ==
    IF self # new
    THEN [self |-> self, ret |-> Err(self.failed)]
    ELSE IF IsSupported(language_server_id)
         THEN [self |-> self, ret |-> Ok(Launch)]
         ELSE [self |-> [struct |-> "FerruleExtension",
                         failed |-> UnknownMessage(language_server_id)],
               ret |-> Err(UnknownMessage(language_server_id))]

\* a variant that looks for the binary inside the worktree
language_server_command_local(self, language_server_id, worktree) ==
    [self |-> self,
     ret  |-> IF IsSupported(language_server_id)
              THEN Ok(Command(worktree \o "/ferrule-lsp", <<>>, <<>>))
              ELSE Err(UnknownMessage(language_server_id))]

\* a variant that treats the empty identifier as "the default server"
language_server_command_default(self, language_server_id, worktree) ==
    [self |-> self,
     ret  |-> IF IsSupported(language_server_id) \/ as_ref(language_server_id) = ""
              THEN Ok(Launch)
              ELSE Err(UnknownMessage(language_server_id))]

\* a variant that reports an unknown identifier and launches the default anyway
language_server_command_both(self, language_server_id, worktree) ==
    [self |-> self,
     ret  |-> IF IsSupported(language_server_id)
              THEN Ok(Launch)
              ELSE [kind |-> "Err", msg |-> UnknownMessage(language_server_id),
                    command |-> Launch]]

\* language_server_command(&mut self, language_server_id, _worktree):
\* the value left in self and the Result<Command> returned
language_server_command(self, language_server_id, worktree) ==
    [self |-> self,
     ret  |-> IF IsSupported(language_server_id)
              THEN Ok(Launch)
              ELSE Err(UnknownMessage(language_server_id))]

(***************************************************************************)
(* The host: the state after register_extension! has built the extension.  *)
(***************************************************************************)
Init ==
    /\ ext = new
    /\ pc = [p \in Callers |-> "idle"]
    /\ req = [p \in Callers |-> NoReq]
    /\ res = [p \in Callers |-> NoRes]
    /\ delivered = NoRes

\* the host issues a start request for one identifier in one worktree
Call(p, id, worktree) ==
    /\ pc[p] = "idle"
    /\ pc' = [pc EXCEPT ![p] = "called"]
    /\ req' = [req EXCEPT ![p] = [id |-> id, worktree |-> worktree]]
    /\ UNCHANGED <<ext, res, delivered>>

\* the extension runs the request; &mut self makes the call exclusive
Run(p) ==
    /\ pc[p] = "called"
    /\ LET out == language_server_command(ext, LanguageServerId(req[p].id),
                                          req[p].worktree)
       IN  /\ ext' = out.self
           /\ res' = [res EXCEPT ![p] = out.ret]
    /\ pc' = [pc EXCEPT ![p] = "returned"]
    /\ UNCHANGED <<req, delivered>>

\* the host consumes the result; request and result are then discarded
Consume(p) ==
    /\ pc[p] = "returned"
    /\ delivered' = [id |-> req[p].id, worktree |-> req[p].worktree, ret |-> res[p]]
    /\ pc' = [pc EXCEPT ![p] = "idle"]
    /\ req' = [req EXCEPT ![p] = NoReq]
    /\ res' = [res EXCEPT ![p] = NoRes]
    /\ UNCHANGED ext

Next ==
    \/ \E p \in Callers, id \in Identifiers, worktree \in Worktrees : Call(p, id, worktree)
    \/ \E p \in Callers : Run(p)
    \/ \E p \in Callers : Consume(p)

Spec == Init /\ [][Next]_vars

(***************************************************************************)
(* What the host can observe: the request/result pair each caller holds    *)
(* once its call has returned, and the pair consumed last.                  *)
(***************************************************************************)
Sources == Callers \cup {"delivered"}

Has(s) == IF s \in Callers THEN pc[s] = "returned" ELSE delivered # NoRes

IdOf(s) == IF s \in Callers THEN req[s].id ELSE delivered.id

WorktreeOf(s) == IF s \in Callers THEN req[s].worktree ELSE delivered.worktree

RetOf(s) == IF s \in Callers THEN res[s] ELSE delivered.ret

IsLaunch(r) == r.kind = "Ok" /\ DOMAIN r = {"kind", "command"}

IsUnknownServerError(r) == r.kind = "Err" /\ DOMAIN r = {"kind", "msg"}

\* t occurs in s as a contiguous run of characters
Contains(s, t) ==
    \E i \in 1..(Len(s) - Len(t) + 1) : SubSeq(s, i, i + Len(t) - 1) = t

SupportedSet == {"ferrule-lsp"}

Scenario1 ==
    [kind |-> "Ok",
     command |-> [command |-> "ferrule-lsp", args |-> <<>>, env |-> <<>>]]

\* C1: every result observed for the identifier "ferrule-lsp", in whatever
\* project context, is a launch specification (never an error) with program
\* "ferrule-lsp" (non-empty), no arguments and no environment overrides.
C1_SupportedLaunch ==
    \A s \in Sources :
        (Has(s) /\ IdOf(s) = "ferrule-lsp") =>
            /\ IsLaunch(RetOf(s))
            /\ RetOf(s) = Scenario1
            /\ Len(RetOf(s).command.command) > 0
            /\ Len(RetOf(s).command.args) = 0
            /\ DOMAIN RetOf(s).command.env = {}

\* "ferrule-lsp" has been resolved in both project contexts
C1_Witness ==
    /\ pc["host1"] = "returned" /\ req["host1"] = [id |-> "ferrule-lsp", worktree |-> "/work/a"]
    /\ pc["host2"] = "returned" /\ req["host2"] = [id |-> "ferrule-lsp", worktree |-> "/work/b"]
    /\ res["host1"].kind = "Ok" /\ res["host2"].kind = "Ok"

\* C2: every result observed for an identifier outside the supported set is
\* an UnknownServerError whose message contains that identifier in full, and
\* carries no launch specification.
C2_UnknownCarriesId ==
    \A s \in Sources :
        (Has(s) /\ IdOf(s) \notin SupportedSet) =>
            /\ IsUnknownServerError(RetOf(s))
            /\ "command" \notin DOMAIN RetOf(s)
            /\ Contains(RetOf(s).msg, IdOf(s))

\* "clangd" has failed with an error naming "clangd"
C2_Witness ==
    \E p \in Callers :
        /\ pc[p] = "returned" /\ req[p].id = "clangd"
        /\ res[p].kind = "Err" /\ Contains(res[p].msg, "clangd")
        /\ ~Contains(res[p].msg, "clangd-")

\* C3: two observed calls with the same identifier and the same project
\* context have structurally equal results, whatever ran in between.
C3_SameInputsSameResult ==
    \A s, t \in Sources :
        (Has(s) /\ Has(t) /\ IdOf(s) = IdOf(t) /\ WorktreeOf(s) = WorktreeOf(t)) =>
            RetOf(s) = RetOf(t)

\* a call was consumed, another call with a different identifier ran, and the
\* first call was then repeated with the same inputs
C3_Witness ==
    \E p, q \in Callers :
        /\ p # q /\ pc[p] = "returned" /\ pc[q] = "returned" /\ delivered # NoRes
        /\ req[p].id = delivered.id /\ req[p].worktree = delivered.worktree
        /\ req[q].id # req[p].id
        /\ res[q].kind # res[p].kind

\* C4: the result depends on the identifier alone: two observed calls with
\* the same identifier have equal results even in different project contexts.
C4_ContextIgnored ==
    \A s, t \in Sources :
        (Has(s) /\ Has(t) /\ IdOf(s) = IdOf(t)) => RetOf(s) = RetOf(t)

\* the same identifier has been resolved in two different project contexts,
\* once for the supported identifier and once for an unsupported one
C4_Witness ==
    /\ pc["host1"] = "returned" /\ pc["host2"] = "returned"
    /\ req["host1"].id = req["host2"].id
    /\ req["host1"].worktree # req["host2"].worktree
    /\ res["host1"].kind = "Ok"
    /\ delivered # NoRes /\ delivered.ret.kind = "Err"

\* C5: the empty identifier takes the unknown-identifier path: the result is
\* an UnknownServerError whose message is the prefix every unknown
\* identifier gets, followed by the (empty) identifier.
C5_EmptyIsUnknown ==
    \A s \in Sources :
        (Has(s) /\ IdOf(s) = "") =>
            /\ IsUnknownServerError(RetOf(s))
            /\ SubSeq(RetOf(s).msg, Len(RetOf(s).msg) - Len(IdOf(s)) + 1,
                      Len(RetOf(s).msg)) = ""
            /\ \A t \in Sources :
                   (Has(t) /\ IdOf(t) \notin SupportedSet) =>
                       /\ RetOf(t).kind = RetOf(s).kind
                       /\ RetOf(t).msg = RetOf(s).msg \o IdOf(t)

\* the empty identifier and a non-empty unsupported one have both failed
C5_Witness ==
    \E p, q \in Callers :
        /\ pc[p] = "returned" /\ req[p].id = "" /\ res[p].kind = "Err"
        /\ pc[q] = "returned" /\ req[q].id = "clangd" /\ res[q].kind = "Err"

\* C6: when a call for "ferrule-lsp" and a call for "rust-analyzer" are in
\* progress together, then however their steps interleave the first, once
\* returned, holds the Scenario 1 launch specification and the second, once
\* returned, holds the UnknownServerError for "rust-analyzer".
C6_ConcurrentIndependent ==
    \A p, q \in Callers :
        (/\ p # q /\ pc[p] # "idle" /\ pc[q] # "idle"
         /\ req[p].id = "ferrule-lsp" /\ req[q].id = "rust-analyzer") =>
            /\ pc[p] = "returned" => res[p] = Scenario1
            /\ pc[q] = "returned" =>
                   res[q] = [kind |-> "Err", msg |-> "unknown language server: rust-analyzer"]

\* both concurrent calls have returned, one with a launch specification and
\* one with an error
C6_Witness ==
    \E p, q \in Callers :
        /\ pc[p] = "returned" /\ req[p].id = "ferrule-lsp" /\ res[p].kind = "Ok"
        /\ pc[q] = "returned" /\ req[q].id = "rust-analyzer" /\ res[q].kind = "Err"

\* C7: every call that has run holds exactly one outcome, a launch
\* specification or an UnknownServerError and nothing else, and an
\* unsupported identifier is never answered with a substitute launch.
C7_ExactlyOneOutcome ==
    /\ \A p \in Callers : pc[p] = "returned" => res[p] # NoRes
    /\ \A s \in Sources :
           Has(s) =>
               /\ IsLaunch(RetOf(s)) \/ IsUnknownServerError(RetOf(s))
               /\ ~(IsLaunch(RetOf(s)) /\ IsUnknownServerError(RetOf(s)))
               /\ "command" \in DOMAIN RetOf(s) => "msg" \notin DOMAIN RetOf(s)
               /\ IdOf(s) \notin SupportedSet => "command" \notin DOMAIN RetOf(s)

\* both outcomes are held at once
C7_Witness ==
    \E p, q \in Callers :
        /\ pc[p] = "returned" /\ IsLaunch(res[p])
        /\ pc[q] = "returned" /\ IsUnknownServerError(res[q])
        /\ req[q].id = "rust-analyzer"

\* C8: the extension's state never changes, and every observed result is the
\* one a freshly created extension gives for the same inputs.
C8_NoStateKept ==
    /\ ext = new
    /\ \A s \in Sources :
           Has(s) =>
               RetOf(s) = language_server_command(new, LanguageServerId(IdOf(s)),
                                                  WorktreeOf(s)).ret

\* the extension has served a failing call and then successful ones
C8_Witness ==
    /\ delivered # NoRes /\ delivered.ret.kind = "Err"
    /\ \A p \in Callers : pc[p] = "returned" /\ res[p].kind = "Ok"
    /\ ext = new

\* C9: a call succeeds if and only if its identifier is "ferrule-lsp"
\* character for character.
C9_ExactMatch ==
    \A s \in Sources :
        Has(s) => (RetOf(s).kind = "Ok" <=> IdOf(s) = "ferrule-lsp")

\* a case variant, a prefix and a whitespace-padded form have all failed
C9_Witness ==
    /\ delivered # NoRes /\ delivered.id = "Ferrule-lsp" /\ delivered.ret.kind = "Err"
    /\ pc["host1"] = "returned" /\ req["host1"].id = "ferrule" /\ res["host1"].kind = "Err"
    /\ pc["host2"] = "returned" /\ req["host2"].id = "ferrule-lsp " /\ res["host2"].kind = "Err"

\* C10: the error for an unsupported identifier is the single string
\* "unknown language server: " followed by the identifier and nothing else,
\* and two different unsupported identifiers get two different messages.
C10_MessageFormat ==
    /\ \A s \in Sources :
           (Has(s) /\ IdOf(s) \notin SupportedSet) =>
               RetOf(s) = [kind |-> "Err", msg |-> "unknown language server: " \o IdOf(s)]
    /\ \A s, t \in Sources :
           (/\ Has(s) /\ Has(t) /\ IdOf(s) # IdOf(t)
            /\ IdOf(s) \notin SupportedSet /\ IdOf(t) \notin SupportedSet) =>
               RetOf(s).msg # RetOf(t).msg

\* two unsupported identifiers that differ only in their last character
C10_Witness ==
    /\ pc["host1"] = "returned" /\ req["host1"].id = "ferrule-lsp "
    /\ pc["host2"] = "returned" /\ req["host2"].id = "ferrule-lspx"
    /\ res["host1"].kind = "Err" /\ res["host2"].kind = "Err"
    /\ res["host1"].msg # res["host2"].msg

=============================================================================
